---- MODULE Spec2Model ----
(***************************************************************************)
(* A model of the DeepAR forecasting object (src/model/deepar.py) and of   *)
(* the softplus transform between unconstrained parameters and covariance  *)
(* diagonals (src/common.py).                                              *)
(*                                                                         *)
(* Tensors.  A tensor of shape (len, batch_size, size) is a sequence over  *)
(* time of sequences over the batch of vectors; input_size, hidden_size    *)
(* and num_layers are 1, so an input row and a hidden/cell state are       *)
(* sequences over the batch of integers.  observations_size is 1 in the    *)
(* object's behaviours; the softplus transform is also exercised on longer *)
(* vectors.                                                                *)
(*                                                                         *)
(* Numbers.  The recurrent network and the two linear decoders are trained *)
(* library layers: they are modelled as fixed deterministic functions over *)
(* small integers.  The arguments of softplus / inverse_softplus are real  *)
(* numbers represented exactly by their exponential, in units of 1/One:    *)
(* the positive integer n stands for the real number ln(n / One).  exp is  *)
(* a strictly increasing bijection, so on this representation              *)
(*     log(1 + exp(x))  is  n + One,     log(exp(x) - 1)  is  n - One,     *)
(*     x < threshold    is  n < ExpThreshold.                              *)
(* A covariance entry v >= 0 is represented by its non-negative root       *)
(* sqrt(v), itself in the representation above.                            *)
(***************************************************************************)
EXTENDS Integers, Sequences, FiniteSets, TLC

VARIABLES
    attrs,               \* names of the attributes set on the DeepAR object
    external_input_seq,  \* self.external_input_seq
    observations_seq,    \* self.observations_seq
    memory_state,        \* self.memory_state: the id of a dictionary object
    state_mu,            \* self.state_mu
    state_logsigma,      \* self.state_logsigma
    heap,                \* dictionary objects by id
    call,                \* arguments of the most recent forward call
    ret,                 \* what the most recent method call returned or raised
    sp                   \* the softplus transform's argument and results

vars == <<attrs, external_input_seq, observations_seq, memory_state, state_mu,
          state_logsigma, heap, call, ret, sp>>

objectVars == <<attrs, external_input_seq, observations_seq, memory_state,
                state_mu, state_logsigma, heap, call, ret>>

-----------------------------------------------------------------------------
(* Bounds of the model and the data the caller draws from *)

\* longest input sequence of one forward call
MaxLen == 2

\* the batch size of the caller's data
BatchSize == 2

\* longest vector given to the softplus transform
MaxDim == 2

\* the values of one input or observation entry
Values == {0, 1}

Lengths == 0..MaxLen

\* the function f on 1..n as a sequence, its entries evaluated once
AsSeq(f) == f \o <<>>

\* one time step of a signal over the batch: entry i is the signal's value
\* shifted by i - 1
BatchRow(v, b) == AsSeq([i \in 1..b |-> (v + i - 1) % 2])

\* the signals of length l: a value that changes at most once
Signals(l) ==
    {AsSeq([t \in 1..l |-> IF t <= k THEN v ELSE 1 - v]) : v \in Values, k \in 0..l}

\* input tensors of shape (l, b, 1)
InputSeqs(l, b) == {AsSeq([t \in 1..l |-> BatchRow(s[t], b)]) : s \in Signals(l)}

\* observation tensors of shape (l, b, 1): a signal that does not change
ObservationSeqs(l, b) ==
    {AsSeq([t \in 1..l |-> AsSeq([i \in 1..b |-> <<BatchRow(v, b)[i]>>])]) : v \in Values}

\* a tensor of shape (Len(rows), batch_size, .): the batch size is kept beside
\* the rows, a tensor of length 0 has one too
Tensor(batch_size, rows) == [batch |-> batch_size, rows |-> rows]

\* the value of a field whose attribute is not set
NoTensor == Tensor(0, <<>>)

-----------------------------------------------------------------------------
(* common.py: softplus, inverse_softplus, logsigma2cov, cov2logsigma *)

\* the real number 1 of `1+torch.exp(x)` and `torch.ones_like(x)`, in the
\* units of the representation
One == 2

\* threshold=20 in the representation: x < 20 iff n < exp(20) * One
\* = 970330390.8..., iff n < ExpThreshold
ExpThreshold == 970330391

\* softplus of one entry: torch.where(x < threshold, log(1+exp(x)), x)
softplus(x) == IF x < ExpThreshold THEN x + One ELSE x

\* inverse_softplus of one entry:
\* torch.where(x < threshold, log(exp(x) - 1), x).  The logarithm of a
\* number <= 0 is not a real number (torch gives -inf or nan): written 0.
inverse_softplus(x) ==
    IF x < ExpThreshold THEN (IF x > One THEN x - One ELSE 0) ELSE x

\* s**2 of a real s, as a covariance entry: represented by its root |s|.
\* ln(n/One) >= 0 iff n >= One.
Square(s) == IF s >= One THEN s ELSE (One * One) \div s

\* torch.sqrt of a covariance entry
Sqrt(v) == v

\* the real number 0: ln(One / One)
RealZero == One

\* torch.diag_embed of a vector: the real number 0 off the diagonal
diag_embed(v) ==
    AsSeq([i \in 1..Len(v) |-> AsSeq([j \in 1..Len(v) |-> IF i = j THEN v[i] ELSE RealZero])])

\* cov.diagonal(dim1=-2, dim2=-1)
diagonal(m) == AsSeq([i \in 1..Len(m) |-> m[i][i]])

\* logsigma2cov on one vector
logsigma2cov(logsigma) ==
    diag_embed(AsSeq([i \in 1..Len(logsigma) |-> Square(softplus(logsigma[i]))]))

\* cov2logsigma on one matrix
cov2logsigma(cov) ==
    LET d == diagonal(cov)
    IN  AsSeq([i \in 1..Len(d) |-> inverse_softplus(Sqrt(d[i]))])

\* logsigma2cov on the rows of a tensor of shape (len, batch_size, size)
logsigma2covSeq(rows) ==
    AsSeq([i \in 1..Len(rows) |-> AsSeq([b \in 1..Len(rows[i]) |-> logsigma2cov(rows[i][b])])])

-----------------------------------------------------------------------------
(* deepar.py: the recurrent step and the two decoders *)

\* one step of self.lstm on one batch entry: the new (hidden, cell), each
\* one of three levels
LSTMCell(x, h, c) ==
    LET c2 == (2 * c + x + h + 1) % 3
    IN  [hidden |-> (c2 + x) % 3, cell |-> c2]

\* self.lstm(torch.unsqueeze(external_input_seq[t], dim=0), (hidden, cell))
lstm(row, hidden, cell) ==
    LET new == AsSeq([b \in 1..Len(row) |-> LSTMCell(row[b], hidden[b], cell[b])])
    IN  [hidden |-> AsSeq([b \in 1..Len(row) |-> new[b].hidden]),
         cell   |-> AsSeq([b \in 1..Len(row) |-> new[b].cell])]

\* self.distribution_mu(hidden_permute)
distribution_mu(hidden) == AsSeq([b \in 1..Len(hidden) |-> <<2 * hidden[b] - 1>>])

\* self.distribution_presigma(hidden_permute)
distribution_presigma(hidden) == AsSeq([b \in 1..Len(hidden) |-> <<hidden[b] + 1>>])

\* torch.zeros(self.num_layers, batch_size, self.hidden_size)
zeros(batch_size) == AsSeq([b \in 1..batch_size |-> 0])

\* the dictionary {}
EmptyDict == [k \in {} |-> <<>>]

\* the dictionary {'hidden': hidden, 'cell': cell}
MemoryDict(hidden, cell) == [k \in {"hidden", "cell"} |->
                                 IF k = "hidden" THEN hidden ELSE cell]

\* memory_state=None: the id of no dictionary object
None == 0

\* the ids of dictionary objects: at most two are alive between two calls,
\* the one the caller passed and the one the object holds
DictIds == {1, 2}

\* the id of a newly created object: one that no live object has
FreshId(live) == CHOOSE i \in DictIds : i \notin live

\* the memory_state argument ignored: every call starts from zeros
InitialStateIgnoringArg(arg, objects, batch_size) ==
    [hidden |-> zeros(batch_size), cell |-> zeros(batch_size)]

\* hidden, cell = (zeros, zeros) if memory_state is None
\*                else (memory_state['hidden'], memory_state['cell'])
InitialState(arg, objects, batch_size) ==
    IF arg = None
    THEN [hidden |-> zeros(batch_size), cell |-> zeros(batch_size)]
    ELSE [hidden |-> objects[arg]["hidden"], cell |-> objects[arg]["cell"]]

\* the observation fed back into the recurrent step (teacher forcing)
RECURSIVE PosteriorLoopFeedingObservations(_, _, _, _, _, _, _)
PosteriorLoopFeedingObservations(xs, obs, t, hidden, cell, mus, sigmas) ==
    IF t > Len(xs)
    THEN [hidden |-> hidden, cell |-> cell, state_mu |-> mus, state_logsigma |-> sigmas]
    ELSE LET row == AsSeq([b \in 1..Len(xs[t]) |-> xs[t][b] + obs[t][b][1]])
             st == lstm(row, hidden, cell)
         IN  PosteriorLoopFeedingObservations(xs, obs, t + 1, st.hidden, st.cell,
                           Append(mus, distribution_mu(st.hidden)),
                           Append(sigmas, distribution_presigma(st.hidden)))

\* the loop of forward_posterior from step t on
RECURSIVE PosteriorLoop(_, _, _, _, _, _, _)
PosteriorLoop(xs, obs, t, hidden, cell, mus, sigmas) ==
    IF t > Len(xs)
    THEN [hidden |-> hidden, cell |-> cell, state_mu |-> mus, state_logsigma |-> sigmas]
    ELSE LET st == lstm(xs[t], hidden, cell)
         IN  PosteriorLoop(xs, obs, t + 1, st.hidden, st.cell,
                           Append(mus, distribution_mu(st.hidden)),
                           Append(sigmas, distribution_presigma(st.hidden)))

\* the pair decoded from the hidden state before the step, not after it
RECURSIVE PredictionLoopDecodingBeforeStep(_, _, _, _, _, _)
PredictionLoopDecodingBeforeStep(xs, t, hidden, cell, mus, sigmas) ==
    IF t > Len(xs)
    THEN [hidden |-> hidden, cell |-> cell, state_mu |-> mus, state_logsigma |-> sigmas]
    ELSE LET st == lstm(xs[t], hidden, cell)
         IN  PredictionLoopDecodingBeforeStep(xs, t + 1, st.hidden, st.cell,
                            Append(mus, distribution_mu(hidden)),
                            Append(sigmas, distribution_presigma(hidden)))

\* the loop of forward_prediction from step t on
RECURSIVE PredictionLoop(_, _, _, _, _, _)
PredictionLoop(xs, t, hidden, cell, mus, sigmas) ==
    IF t > Len(xs)
    THEN [hidden |-> hidden, cell |-> cell, state_mu |-> mus, state_logsigma |-> sigmas]
    ELSE LET st == lstm(xs[t], hidden, cell)
         IN  PredictionLoop(xs, t + 1, st.hidden, st.cell,
                            Append(mus, distribution_mu(st.hidden)),
                            Append(sigmas, distribution_presigma(st.hidden)))


-----------------------------------------------------------------------------
(* deepar.py: the distribution, sampling and the loss *)

\* torch.distributions.MultivariateNormal(self.state_mu,
\*                                        logsigma2cov(self.state_logsigma))
MultivariateNormal(mu, logsigma) ==
    [loc |-> mu, covariance_matrix |-> Tensor(logsigma.batch, logsigma2covSeq(logsigma.rows))]

\* the noise one draw adds to every entry of the mean
Noise == {-1, 1}

\* the tensor loc + eps
Shifted(loc, eps) ==
    Tensor(loc.batch,
           AsSeq([t \in 1..Len(loc.rows) |-> AsSeq([b \in 1..Len(loc.rows[t]) |->
               AsSeq([i \in 1..Len(loc.rows[t][b]) |-> loc.rows[t][b][i] + eps])])]))

\* the tensors observations_normal_dist.sample() may return
sample(dist) == {Shifted(dist.loc, eps) : eps \in Noise}

\* the tensors normal_differential_sample(observations_dist) may return
normal_differential_sample(dist) == {Shifted(dist.loc, eps) : eps \in Noise}

\* two sizes broadcast to one: equal, or one of them is 1
Broadcastable(a, b) == a = b \/ a = 1 \/ b = 1

BroadcastSize(a, b) == IF a = 1 THEN b ELSE a

\* the index into a dimension of size n of entry i of the broadcast result
BroadcastIndex(n, i) == IF n = 1 THEN 1 ELSE i

RECURSIVE SumSeq(_)
SumSeq(s) == IF s = <<>> THEN 0 ELSE Head(s) + SumSeq(Tail(s))

\* distribution.log_prob of one value under one mean and one diagonal
\* covariance: a library function, here the negated sum over the entries of
\* squared error plus the covariance entry
log_prob(value, loc, cov) ==
    - SumSeq(AsSeq([i \in 1..Len(loc) |->
                       (value[i] - loc[i]) * (value[i] - loc[i]) + cov[i][i]]))

RECURSIVE Gcd(_, _)
Gcd(a, b) == IF b = 0 THEN a ELSE Gcd(b, a % b)

Abs(n) == IF n < 0 THEN -n ELSE n

\* the rational number n / d (d > 0), in lowest terms
Rat(n, d) == LET g == Gcd(Abs(n), d) IN [num |-> n \div g, den |-> d \div g]

RatAdd(p, q) == Rat(p.num * q.den + q.num * p.den, p.den * q.den)

RatNeg(p) == [num |-> -p.num, den |-> p.den]

RECURSIVE RatSum(_)
RatSum(s) == IF s = <<>> THEN Rat(0, 1) ELSE RatAdd(Head(s), RatSum(Tail(s)))

\* distribution.log_prob(self.observations_seq): shape (len, batch_size),
\* the value and the distribution's batch shape broadcast
likelihood(obs, mu, logsigma) ==
    LET dist == MultivariateNormal(mu, logsigma)
        l == BroadcastSize(Len(obs.rows), Len(mu.rows))
        n == BroadcastSize(obs.batch, mu.batch)
    IN  AsSeq([t \in 1..l |-> AsSeq([b \in 1..n |->
            log_prob(obs.rows[BroadcastIndex(Len(obs.rows), t)][BroadcastIndex(obs.batch, b)],
                     dist.loc.rows[BroadcastIndex(Len(mu.rows), t)][BroadcastIndex(mu.batch, b)],
                     dist.covariance_matrix.rows[BroadcastIndex(Len(mu.rows), t)][BroadcastIndex(mu.batch, b)])])])

\* torch.mean(likelihood, dim=1)
loss_batch_mean(lik) == AsSeq([t \in 1..Len(lik) |-> Rat(SumSeq(lik[t]), Len(lik[t]))])

\* the two reductions on the wrong dimensions: the mean over time of the
\* sums over the batch
lossMeanOverTime(lik) ==
    IF lik = <<>> THEN Rat(0, 1)
    ELSE RatNeg(Rat(SumSeq(AsSeq([t \in 1..Len(lik) |-> SumSeq(lik[t])])), Len(lik)))

\* -torch.squeeze(torch.sum(loss_batch_mean, dim=0))
loss(lik) == RatNeg(RatSum(loss_batch_mean(lik)))

-----------------------------------------------------------------------------
(* deepar.py: the methods of DeepAR *)

ForwardOps == {"forward_posterior", "forward_prediction"}

\* how the caller chooses the memory_state argument: None, or the dictionary
\* the previous forward call returned
MemoryChoices == {"none", "returned"}

\* the id of the dictionary passed as memory_state
ArgId(choice) == IF choice = "returned" THEN memory_state ELSE None

\* the caller passes back a dictionary only when a forward call has
\* returned one
ArgOk(choice) == choice = "returned" => "memory_state" \in attrs

\* no new dictionary: the entries are written into the one the attribute holds
NewDictIdReusingHeld(arg, held) == IF held # None THEN held ELSE FreshId({arg})

\* self.memory_state = {}: the id of the new dictionary; the dictionary the
\* attribute held before is dropped unless it is the caller's
NewDictId(arg, held) == FreshId({arg})

\* self.memory_state['hidden'] = hidden; self.memory_state['cell'] = cell
\* on the new dictionary; the caller's dictionary stays alive
StoreMemory(objects, arg, new, hidden, cell) ==
    [i \in DictIds |->
        IF i = new THEN MemoryDict(hidden, cell)
        ELSE IF i = arg THEN objects[i]
        ELSE EmptyDict]

\* torch.stack returning an empty tensor for an empty list
StackNeverRaises(steps) == FALSE

\* torch.stack(state_mu, dim=0) raises on an empty list of step outputs
StackRaises(steps) == steps = <<>>

\* the most recent forward call, for the properties: the method, whether it
\* returned, the memory_state argument and the dictionary it referred to as
\* the call started
CallRecord(op, ok, arg, objects) ==
    [op |-> op, ok |-> ok, memory_state |-> arg,
     given |-> IF arg = None THEN EmptyDict ELSE objects[arg]]

\* the covariance built from the means instead of state_logsigma
decode_observation_result_from_mu(mode, mu, logsigma) ==
    LET observations_normal_dist == MultivariateNormal(mu, mu)
    IN  IF mode = "dist" THEN {observations_normal_dist}
        ELSE sample(observations_normal_dist)

\* decode_observation(mode): the values it may return
decode_observation_result(mode, mu, logsigma) ==
    LET observations_normal_dist == MultivariateNormal(mu, logsigma)
    IN  IF mode = "dist" THEN {observations_normal_dist}
        ELSE sample(observations_normal_dist)

\* the two branches on max_prob exchanged
observations_sample_swapped(max_prob, observations_dist) ==
    IF max_prob THEN normal_differential_sample(observations_dist)
    ELSE {observations_dist.loc}

\* the predicted sequences forward_prediction may return
observations_sample(max_prob, observations_dist) ==
    IF max_prob THEN {observations_dist.loc}
    ELSE normal_differential_sample(observations_dist)

forward_posterior(b, xs, obs, choice) ==
    LET arg == ArgId(choice)
        init == InitialState(arg, heap, b)
        new == NewDictId(arg, memory_state)
    IN  /\ ArgOk(choice)
        /\ \E out \in {PosteriorLoop(xs, obs, 1, init.hidden, init.cell, <<>>, <<>>)} :
              /\ external_input_seq' = Tensor(b, xs)
              /\ observations_seq' = Tensor(b, obs)
              /\ memory_state' = new
              /\ heap' = StoreMemory(heap, arg, new, out.hidden, out.cell)
              /\ call' = CallRecord("forward_posterior", ~StackRaises(out.state_mu), arg, heap)
              /\ IF StackRaises(out.state_mu)
                 THEN \* the error leaves the method before state_mu is assigned
                      /\ attrs' = attrs \cup {"external_input_seq", "observations_seq",
                                              "memory_state"}
                      /\ UNCHANGED <<state_mu, state_logsigma>>
                      /\ ret' = [op |-> "forward_posterior", status |-> "error"]
                 ELSE /\ attrs' = attrs \cup {"external_input_seq", "observations_seq",
                                              "memory_state", "state_mu", "state_logsigma"}
                      /\ state_mu' = Tensor(b, out.state_mu)
                      /\ state_logsigma' = Tensor(b, out.state_logsigma)
                      /\ ret' = [op |-> "forward_posterior", status |-> "ok",
                                 state_mu |-> Tensor(b, out.state_mu),
                                 state_logsigma |-> Tensor(b, out.state_logsigma),
                                 memory_state |-> new]
        /\ UNCHANGED <<sp>>

forward_prediction(b, xs, max_prob, choice) ==
    LET arg == ArgId(choice)
        init == InitialState(arg, heap, b)
        new == NewDictId(arg, memory_state)
    IN  /\ ArgOk(choice)
        /\ \E out \in {PredictionLoop(xs, 1, init.hidden, init.cell, <<>>, <<>>)} :
              /\ external_input_seq' = Tensor(b, xs)
              /\ memory_state' = new
              /\ heap' = StoreMemory(heap, arg, new, out.hidden, out.cell)
              /\ call' = CallRecord("forward_prediction", ~StackRaises(out.state_mu), arg, heap)
              /\ IF StackRaises(out.state_mu)
                 THEN \* the error leaves the method before state_mu is assigned
                      /\ attrs' = attrs \cup {"external_input_seq", "memory_state"}
                      /\ UNCHANGED <<state_mu, state_logsigma>>
                      /\ ret' = [op |-> "forward_prediction", status |-> "error"]
                 ELSE /\ attrs' = attrs \cup {"external_input_seq", "memory_state",
                                              "state_mu", "state_logsigma"}
                      /\ state_mu' = Tensor(b, out.state_mu)
                      /\ state_logsigma' = Tensor(b, out.state_logsigma)
                      /\ \E observations_dist \in
                                decode_observation_result("dist", state_mu', state_logsigma') :
                         \E drawn \in observations_sample(max_prob, observations_dist) :
                            ret' = [op |-> "forward_prediction", status |-> "ok",
                                    max_prob |-> max_prob,
                                    observations_dist |-> observations_dist,
                                    observations_sample |-> drawn,
                                    memory_state |-> new]
        /\ UNCHANGED <<observations_seq, sp>>

\* what call_loss() returns or raises in the current state
call_loss_result ==
    IF \/ "observations_seq" \notin attrs
       \/ "state_mu" \notin attrs
    THEN \* AttributeError
         [op |-> "call_loss", status |-> "error"]
    ELSE IF \/ ~Broadcastable(Len(observations_seq.rows), Len(state_mu.rows))
            \/ ~Broadcastable(observations_seq.batch, state_mu.batch)
    THEN \* log_prob raises: the value does not broadcast to the batch shape
         [op |-> "call_loss", status |-> "error"]
    ELSE [op |-> "call_loss", status |-> "ok",
          loss |-> loss(likelihood(observations_seq, state_mu, state_logsigma)),
          kl_loss |-> 0, decoding_loss |-> 0]

call_loss ==
    /\ ret' = call_loss_result
    /\ UNCHANGED <<attrs, external_input_seq, observations_seq, memory_state,
                   state_mu, state_logsigma, heap, call, sp>>

decode_observation(mode) ==
    /\ IF "state_mu" \notin attrs
       THEN \* AttributeError
            ret' = [op |-> "decode_observation", status |-> "error", mode |-> mode]
       ELSE \E value \in decode_observation_result(mode, state_mu, state_logsigma) :
               ret' = [op |-> "decode_observation", status |-> "ok", mode |-> mode,
                       value |-> value]
    /\ UNCHANGED <<attrs, external_input_seq, observations_seq, memory_state,
                   state_mu, state_logsigma, heap, call, sp>>

-----------------------------------------------------------------------------
(* The object's behaviours: any sequence of method calls *)

\* the object after __init__: none of the five attributes is set
Init ==
    /\ attrs = {}
    /\ external_input_seq = NoTensor
    /\ observations_seq = NoTensor
    /\ memory_state = None
    /\ state_mu = NoTensor
    /\ state_logsigma = NoTensor
    /\ heap = [i \in DictIds |-> EmptyDict]
    /\ call = [op |-> "none", ok |-> FALSE, memory_state |-> None, given |-> EmptyDict]
    /\ ret = [op |-> "__init__", status |-> "ok"]
    /\ sp = [stage |-> "idle", logsigma |-> <<>>, cov |-> <<>>, back |-> <<>>]

CallForwardPosterior ==
    \E l \in Lengths, choice \in MemoryChoices :
        \E xs \in InputSeqs(l, BatchSize), obs \in ObservationSeqs(l, BatchSize) :
            forward_posterior(BatchSize, xs, obs, choice)

CallForwardPrediction ==
    \E l \in Lengths, choice \in MemoryChoices, max_prob \in BOOLEAN :
        \E xs \in InputSeqs(l, BatchSize) :
            forward_prediction(BatchSize, xs, max_prob, choice)

CallLoss == call_loss

CallDecodeObservation == \E mode \in {"dist", "sample"} : decode_observation(mode)

Next ==
    \/ CallForwardPosterior
    \/ CallForwardPrediction
    \/ CallLoss
    \/ CallDecodeObservation

Spec == Init /\ [][Next]_vars

-----------------------------------------------------------------------------
(* The softplus transform on its own: a vector of unconstrained parameters *)
(* is turned into a covariance matrix and back                            *)

\* the entries of the vectors: below, around and above the threshold
LogsigmaGrid ==
    {1, One, One + 1, ExpThreshold - One - 1, ExpThreshold - One,
     ExpThreshold - 1, ExpThreshold, ExpThreshold + 1}

Dims == 1..MaxDim

LogsigmaVectors == UNION {[1..d -> LogsigmaGrid] : d \in Dims}

SoftplusInit ==
    /\ attrs = {}
    /\ external_input_seq = NoTensor
    /\ observations_seq = NoTensor
    /\ memory_state = None
    /\ state_mu = NoTensor
    /\ state_logsigma = NoTensor
    /\ heap = [i \in DictIds |-> EmptyDict]
    /\ call = [op |-> "none", ok |-> FALSE, memory_state |-> None, given |-> EmptyDict]
    /\ ret = [op |-> "__init__", status |-> "ok"]
    /\ \E x \in LogsigmaVectors :
          sp = [stage |-> "logsigma", logsigma |-> AsSeq(x), cov |-> <<>>, back |-> <<>>]

CallLogsigma2cov ==
    /\ sp.stage = "logsigma"
    /\ sp' = [sp EXCEPT !.stage = "cov", !.cov = logsigma2cov(sp.logsigma)]
    /\ UNCHANGED objectVars

CallCov2logsigma ==
    /\ sp.stage = "cov"
    /\ sp' = [sp EXCEPT !.stage = "back", !.back = cov2logsigma(sp.cov)]
    /\ UNCHANGED objectVars

SoftplusNext == CallLogsigma2cov \/ CallCov2logsigma

SoftplusSpec == SoftplusInit /\ [][SoftplusNext]_vars

-----------------------------------------------------------------------------
(* Properties *)

\* the input of the most recent forward call (assigned before anything can
\* raise) and the caller's batch size
LastInput == external_input_seq.rows

LastBatch == external_input_seq.batch

\* the dictionary objects as the most recent forward call found them
GivenHeap == [i \in DictIds |-> call.given]

\* the loop of method op on input xs from the memory_state argument arg
Run(op, xs, obs, arg, objects, b) ==
    LET init == InitialState(arg, objects, b)
    IN  IF op = "forward_posterior"
        THEN PosteriorLoop(xs, obs, 1, init.hidden, init.cell, <<>>, <<>>)
        ELSE PredictionLoop(xs, 1, init.hidden, init.cell, <<>>, <<>>)

\* what a run leaves on the object: state_mu, state_logsigma, memory_state
Results(r, b) ==
    <<Tensor(b, r.state_mu), Tensor(b, r.state_logsigma), MemoryDict(r.hidden, r.cell)>>

Stored == <<state_mu, state_logsigma, heap[memory_state]>>

\* the most recent forward call, run again on its own arguments
LastRun ==
    Run(call.op, LastInput, observations_seq.rows, call.memory_state, GivenHeap, LastBatch)

\* the first k steps in one call, the rest in a second call that is given
\* the dictionary the first call returned
ChunkedRun(k) ==
    LET n == Len(LastInput)
        obs == IF call.op = "forward_posterior" THEN observations_seq.rows
               ELSE AsSeq([t \in 1..n |-> <<>>])
        first == Run(call.op, SubSeq(LastInput, 1, k), SubSeq(obs, 1, k),
                     call.memory_state, GivenHeap, LastBatch)
        returned == [i \in DictIds |-> MemoryDict(first.hidden, first.cell)]
        second == Run(call.op, SubSeq(LastInput, k + 1, n), SubSeq(obs, k + 1, n),
                      1, returned, LastBatch)
    IN  <<Tensor(LastBatch, first.state_mu \o second.state_mu),
          Tensor(LastBatch, first.state_logsigma \o second.state_logsigma),
          MemoryDict(second.hidden, second.cell)>>

\* C1: a forward call on l1 + l2 steps leaves the same state_mu,
\* state_logsigma and memory state as a call on the first l1 steps followed
\* by a call on the other l2 steps that is given the memory state the first
\* call returned, for every split with l1 >= 1 and l2 >= 1
C1_ChunkedEqualsWhole ==
    call.ok => \A k \in 1..(Len(LastInput) - 1) : ChunkedRun(k) = Stored

C1_Witness ==
    /\ call.ok
    /\ Len(LastInput) >= 2
    /\ call.memory_state # None
    /\ call.given["hidden"] # zeros(LastBatch)

\* C2: after every forward call that returned, call_loss succeeds and the
\* stored observations belong to that call: they are set and have the length
\* and batch size of state_mu
C2_LossReadyAfterEveryForward ==
    (ret.op \in ForwardOps /\ ret.status = "ok") =>
        /\ call_loss_result.status = "ok"
        /\ "observations_seq" \in attrs
        /\ Len(observations_seq.rows) = Len(state_mu.rows)
        /\ observations_seq.batch = state_mu.batch

\* the distribution of the most recent forward call, from its arguments
ExpectedDist ==
    [loc |-> Tensor(LastBatch, LastRun.state_mu),
     covariance_matrix |->
         Tensor(LastBatch,
                AsSeq([t \in 1..Len(LastInput) |-> AsSeq([b \in 1..LastBatch |->
                    logsigma2cov(LastRun.state_logsigma[t][b])])]))]

\* a tensor of shape (l, b, n)
HasShape(tensor, l, b, n) ==
    /\ tensor.batch = b
    /\ Len(tensor.rows) = l
    /\ \A t \in 1..l : /\ Len(tensor.rows[t]) = b
                       /\ \A i \in 1..b : Len(tensor.rows[t][i]) = n

\* C3: after a forward call that returned, decode_observation('dist') is the
\* Gaussian of that call's means and of logsigma2cov of that call's
\* state_logsigma, and decode_observation('sample') is a draw from it, of
\* shape (len, batch_size, observations_size)
C3_DecodeUsesLastForward ==
    (ret.op = "decode_observation" /\ call.ok) =>
        /\ ret.status = "ok"
        /\ ret.mode = "dist" => ret.value = ExpectedDist
        /\ ret.mode = "sample" =>
              /\ \E eps \in Noise : ret.value = Shifted(ExpectedDist.loc, eps)
              /\ HasShape(ret.value, Len(LastInput), LastBatch, 1)

C3_Witness ==
    /\ ret.op = "decode_observation"
    /\ ret.mode = "dist"
    /\ call.ok
    /\ call.memory_state # None
    /\ Len(LastInput) >= 2

\* C4: forward_prediction returns the distribution of its run and the new
\* memory state whatever max_prob is; the predicted sequence is the
\* distribution's mean when max_prob is True and a draw from the
\* distribution when it is False
C4_PredictionTriple ==
    (ret.op = "forward_prediction" /\ ret.status = "ok") =>
        /\ ret.observations_dist = ExpectedDist
        /\ heap[ret.memory_state] = MemoryDict(LastRun.hidden, LastRun.cell)
        /\ ret.max_prob => ret.observations_sample = ret.observations_dist.loc
        /\ ~ret.max_prob =>
              \E eps \in Noise :
                  ret.observations_sample = Shifted(ret.observations_dist.loc, eps)

C4_Witness ==
    /\ ret.op = "forward_prediction"
    /\ ret.status = "ok"
    /\ ret.max_prob
    /\ Len(LastInput) >= 2

\* the recurrent state after the first n steps of xs
RECURSIVE StateAfter(_, _, _)
StateAfter(xs, n, init) ==
    IF n = 0 THEN init
    ELSE LET before == StateAfter(xs, n - 1, init)
         IN  lstm(xs[n], before.hidden, before.cell)

\* C5: state_mu and state_logsigma have one entry per step, entry t decoded
\* from the hidden state after the steps 1..t, so that it is the same for
\* every input with the same first t steps, and the memory state is the
\* state after the last step
C5_OnePairPerStep ==
    call.ok =>
        LET init == InitialState(call.memory_state, GivenHeap, LastBatch)
            n == Len(LastInput)
        IN  /\ Len(state_mu.rows) = n
            /\ Len(state_logsigma.rows) = n
            /\ \A t \in 1..n :
                  LET after == StateAfter(SubSeq(LastInput, 1, t), t, init)
                  IN  /\ state_mu.rows[t] = distribution_mu(after.hidden)
                      /\ state_logsigma.rows[t] = distribution_presigma(after.hidden)
            /\ \A ys \in InputSeqs(n, LastBatch) : \A t \in 1..n :
                  SubSeq(ys, 1, t) = SubSeq(LastInput, 1, t) =>
                      LET other == Run(call.op, ys, observations_seq.rows,
                                       call.memory_state, GivenHeap, LastBatch)
                      IN  /\ other.state_mu[t] = state_mu.rows[t]
                          /\ other.state_logsigma[t] = state_logsigma.rows[t]
            /\ heap[memory_state] = MemoryDict(StateAfter(LastInput, n, init).hidden,
                                               StateAfter(LastInput, n, init).cell)

C5_Witness ==
    /\ call.ok
    /\ call.op = "forward_prediction"
    /\ Len(LastInput) >= 2
    /\ \E ys \in InputSeqs(Len(LastInput), LastBatch) :
          ys # LastInput /\ ys[1] = LastInput[1]

\* the sum over the time steps and over the batch of the log-likelihoods of
\* the stored observations under the stored means and covariances
TotalLogProb ==
    LET l == BroadcastSize(Len(observations_seq.rows), Len(state_mu.rows))
        n == BroadcastSize(observations_seq.batch, state_mu.batch)
    IN  SumSeq(AsSeq([t \in 1..l |-> SumSeq(AsSeq([b \in 1..n |->
            log_prob(observations_seq.rows[BroadcastIndex(Len(observations_seq.rows), t)]
                                          [BroadcastIndex(observations_seq.batch, b)],
                     state_mu.rows[BroadcastIndex(Len(state_mu.rows), t)]
                                  [BroadcastIndex(state_mu.batch, b)],
                     logsigma2cov(state_logsigma.rows[BroadcastIndex(Len(state_mu.rows), t)]
                                                     [BroadcastIndex(state_mu.batch, b)]))]))]))

\* C6: call_loss returns (loss, 0, 0), where loss is minus the sum over the
\* time steps of the mean over the batch of the log-likelihood of the stored
\* observations: loss * batch_size = - the sum over both dimensions
C6_LossIsBatchMeanTimeSum ==
    (ret.op = "call_loss" /\ ret.status = "ok") =>
        /\ ret.kl_loss = 0
        /\ ret.decoding_loss = 0
        /\ ret.loss.den > 0
        /\ ret.loss.num * BroadcastSize(observations_seq.batch, state_mu.batch)
              = - ret.loss.den * TotalLogProb

C6_Witness ==
    /\ ret.op = "call_loss"
    /\ ret.status = "ok"
    /\ call.op = "forward_posterior"
    /\ call.ok
    /\ Len(state_mu.rows) = 1
    /\ ret.loss.num # 0

\* C7: cov2logsigma(logsigma2cov(x)) = x for every vector x, and
\* logsigma2cov(x) is a matrix with zero off the diagonal and a strictly
\* positive diagonal
C7_RoundTrip ==
    /\ sp.stage = "back" => sp.back = sp.logsigma
    /\ sp.stage = "cov" =>
          \A i, j \in 1..Len(sp.logsigma) :
              IF i = j THEN sp.cov[i][j] > RealZero ELSE sp.cov[i][j] = RealZero

\* C8: forward_posterior and forward_prediction leave the same state_mu,
\* state_logsigma and memory state for the same input and initial memory,
\* and forward_posterior leaves them the same whatever the observations are
C8_ObservationsNeverEnter ==
    call.ok =>
        LET init == InitialState(call.memory_state, GivenHeap, LastBatch)
        IN  /\ Stored = Results(PredictionLoop(LastInput, 1, init.hidden, init.cell,
                                               <<>>, <<>>), LastBatch)
            /\ \A obs \in ObservationSeqs(Len(LastInput), LastBatch) :
                  Stored = Results(PosteriorLoop(LastInput, obs, 1, init.hidden,
                                                 init.cell, <<>>, <<>>), LastBatch)

C8_Witness ==
    /\ call.ok
    /\ call.op = "forward_posterior"
    /\ ret.op = "forward_posterior"
    /\ Len(LastInput) >= 2
    /\ \E obs \in ObservationSeqs(Len(LastInput), LastBatch) : obs # observations_seq.rows

\* C9: memory_state=None gives what an explicit dictionary of zeros gives; a
\* dictionary passed as memory_state is left as it was, and the object holds
\* a new dictionary with exactly the keys 'hidden' and 'cell'
C9_InitialMemory ==
    call.op \in ForwardOps =>
        /\ memory_state \in DictIds
        /\ DOMAIN heap[memory_state] = {"hidden", "cell"}
        /\ call.memory_state # None =>
              /\ memory_state # call.memory_state
              /\ heap[call.memory_state] = call.given
        /\ (call.memory_state = None /\ call.ok) =>
              Stored = Results(Run(call.op, LastInput, observations_seq.rows, 1,
                                   [i \in DictIds |->
                                       MemoryDict(zeros(LastBatch), zeros(LastBatch))],
                                   LastBatch),
                               LastBatch)

C9_Witness ==
    /\ call.op \in ForwardOps
    /\ call.ok
    /\ call.memory_state # None
    /\ heap[memory_state] # call.given

\* the fields cached on the object
Fields == <<attrs, external_input_seq, observations_seq, memory_state, heap,
            state_mu, state_logsigma>>

\* a step that is a forward call raising an error
ForwardFails == ret'.op \in ForwardOps /\ ret'.status = "error" /\ ~call'.ok

\* C10 as stated: a forward call on an empty sequence raises and leaves
\* every cached field as it was
C10_FailureLeavesFieldsUnchanged ==
    [][ForwardFails => UNCHANGED Fields]_vars

\* C10 as amended: a forward call on an empty sequence raises; state_mu and
\* state_logsigma stay as they were (forward_prediction also leaves
\* observations_seq), while external_input_seq, memory_state and, in
\* forward_posterior, observations_seq are those of the failed call
C10_FailureKeepsOnlyDecodedPairs ==
    [][/\ (ret'.op \in ForwardOps /\ Len(external_input_seq'.rows) = 0)
          => ret'.status = "error"
       /\ ForwardFails =>
          /\ Len(external_input_seq'.rows) = 0
          /\ UNCHANGED <<state_mu, state_logsigma>>
          /\ ("state_mu" \in attrs') = ("state_mu" \in attrs)
          /\ ("state_logsigma" \in attrs') = ("state_logsigma" \in attrs)
          /\ {"external_input_seq", "memory_state"} \subseteq attrs'
          /\ heap'[memory_state'] =
                 (IF call'.memory_state = None
                  THEN MemoryDict(zeros(LastBatch'), zeros(LastBatch'))
                  ELSE call'.given)
          /\ call'.op = "forward_posterior" =>
                ("observations_seq" \in attrs' /\ Len(observations_seq'.rows) = 0)
          /\ call'.op = "forward_prediction" => UNCHANGED observations_seq
      ]_vars

C10_Witness ==
    /\ ret.op = "forward_posterior"
    /\ ret.status = "error"
    /\ "state_mu" \in attrs
    /\ Len(state_mu.rows) # Len(observations_seq.rows)

====
